---------------------------- MODULE Spec2Model ----------------------------
(***************************************************************************)
(* Grade calculator (olisebz/grade-calculator).                            *)
(*                                                                         *)
(* The repository holds four revisions of the calculator that the          *)
(* specification describes together:                                       *)
(*   "script"  src/script.js                 (hard delete, row re-created) *)
(*   "first"   src/unnamed/part_000:1-213    (hard delete)                 *)
(*   "pure"    src/unnamed/part_000:338-769  (pure functions, raw strings) *)
(*   "app"     src/unnamed/part_001          (state object, nextId)        *)
(* The variable `variant` fixes the revision a behaviour runs.             *)
(*                                                                         *)
(* JavaScript values are modelled as records [t, s, n, d]:                 *)
(*   t = "str"  a string, s its characters                                 *)
(*   t = "num"  the finite number n/d, in lowest terms, d > 0              *)
(*   t = "nan"  NaN        t = "inf"  +Infinity (n = 1) / -Infinity (n = -1)*)
(*   t = "null" null                                                       *)
(* Arithmetic is exact rational arithmetic: the rounding of IEEE doubles   *)
(* is not modelled. Raw inputs are character sequences over digits, ".",   *)
(* "-" and letters; exponent notation and the literal Infinity are left    *)
(* out of the input alphabet (the data model knows unset, real numbers and *)
(* unparsable input only).                                                 *)
(***************************************************************************)
EXTENDS Integers, Sequences, FiniteSets, TLC

-----------------------------------------------------------------------------
(* JavaScript values *)

Abs(x) == IF x < 0 THEN -x ELSE x

RECURSIVE GCD(_, _)
GCD(a, b) == IF b = 0 THEN a ELSE GCD(b, a % b)

Str(chars) == [t |-> "str", s |-> chars, n |-> 0, d |-> 1]

NaN == [t |-> "nan", s |-> <<>>, n |-> 0, d |-> 1]

Null == [t |-> "null", s |-> <<>>, n |-> 0, d |-> 1]

Inf(sign) == [t |-> "inf", s |-> <<>>, n |-> sign, d |-> 1]

\* the finite number p/q (q # 0), in lowest terms
Num(p, q) ==
    LET sg == IF q < 0 THEN -1 ELSE 1
        g  == GCD(Abs(p), Abs(q))
    IN  [t |-> "num", s |-> <<>>, n |-> (sg * p) \div g, d |-> Abs(q) \div g]

EmptyStr == Str(<<>>)

Sign(x) == IF x.n < 0 THEN -1 ELSE 1

\* a + b on numbers
Add(a, b) ==
    CASE a.t = "nan" \/ b.t = "nan" -> NaN
      [] a.t = "inf" /\ b.t = "inf" -> IF a.n = b.n THEN a ELSE NaN
      [] a.t = "inf" -> a
      [] b.t = "inf" -> b
      [] OTHER -> Num(a.n * b.d + b.n * a.d, a.d * b.d)

\* a * b on numbers
Mul(a, b) ==
    CASE a.t = "nan" \/ b.t = "nan" -> NaN
      [] a.t = "inf" \/ b.t = "inf" ->
            IF a.n = 0 \/ b.n = 0 THEN NaN ELSE Inf(Sign(a) * Sign(b))
      [] OTHER -> Num(a.n * b.n, a.d * b.d)

Neg(a) == IF a.t \in {"num", "inf"} THEN [a EXCEPT !.n = -a.n] ELSE a

Sub(a, b) == Add(a, Neg(b))

\* a / b on numbers
Div(a, b) ==
    CASE a.t = "nan" \/ b.t = "nan" -> NaN
      [] a.t = "inf" /\ b.t = "inf" -> NaN
      [] a.t = "inf" -> Inf(Sign(a) * Sign(b))
      [] b.t = "inf" -> Num(0, 1)
      [] b.n = 0 -> IF a.n = 0 THEN NaN ELSE Inf(Sign(a))
      [] OTHER -> Num(a.n * b.d, a.d * b.n)

\* a < b on numbers (false when either is NaN)
Lt(a, b) ==
    CASE a.t = "nan" \/ b.t = "nan" -> FALSE
      [] a.t = "inf" /\ b.t = "inf" -> a.n < b.n
      [] a.t = "inf" -> a.n < 0
      [] b.t = "inf" -> b.n > 0
      [] OTHER -> a.n * b.d < b.n * a.d

Gt(a, b) == Lt(b, a)

\* a <= b and a >= b on numbers (false when either is NaN)
Le(a, b) == a.t # "nan" /\ b.t # "nan" /\ ~Lt(b, a)

Ge(a, b) == Le(b, a)

\* isNaN(x) and Number.isFinite(x), for x a number
isNaN(x) == x.t = "nan"

isFinite(x) == x.t = "num"

\* the truth value of x in a condition (!x, x || y, x && y)
Truthy(x) ==
    CASE x.t = "str" -> Len(x.s) > 0
      [] x.t = "num" -> x.n # 0
      [] x.t = "inf" -> TRUE
      [] OTHER -> FALSE

\* x || y
OrElse(x, y) == IF Truthy(x) THEN x ELSE y

-----------------------------------------------------------------------------
(* parseFloat *)

Digits == {"0", "1", "2", "3", "4", "5", "6", "7", "8", "9"}

DigitVal(c) ==
    CASE c = "0" -> 0 [] c = "1" -> 1 [] c = "2" -> 2 [] c = "3" -> 3
      [] c = "4" -> 4 [] c = "5" -> 5 [] c = "6" -> 6 [] c = "7" -> 7
      [] c = "8" -> 8 [] c = "9" -> 9

RECURSIVE Pow10(_)
Pow10(k) == IF k = 0 THEN 1 ELSE 10 * Pow10(k - 1)

\* the number of digits of s from position i on
RECURSIVE DigitRun(_, _)
DigitRun(s, i) ==
    IF i <= Len(s) /\ s[i] \in Digits THEN 1 + DigitRun(s, i + 1) ELSE 0

\* the value of the k digits of s from position i on
RECURSIVE DigitsValue(_, _, _)
DigitsValue(s, i, k) ==
    IF k = 0 THEN 0
    ELSE DigitVal(s[i + k - 1]) + 10 * DigitsValue(s, i, k - 1)

\* the decimal digits of the natural number m
RECURSIVE NatToChars(_)
NatToChars(m) ==
    LET c == CASE m % 10 = 0 -> "0" [] m % 10 = 1 -> "1" [] m % 10 = 2 -> "2"
               [] m % 10 = 3 -> "3" [] m % 10 = 4 -> "4" [] m % 10 = 5 -> "5"
               [] m % 10 = 6 -> "6" [] m % 10 = 7 -> "7" [] m % 10 = 8 -> "8"
               [] m % 10 = 9 -> "9"
    IN  IF m < 10 THEN <<c>> ELSE Append(NatToChars(m \div 10), c)

\* String(x): the argument of parseFloat is converted to a string first
ToChars(x) ==
    CASE x.t = "str" -> x.s
      [] x.t = "num" /\ x.d = 1 /\ x.n >= 0 -> NatToChars(x.n)
      [] x.t = "num" /\ x.d = 1 /\ x.n < 0 -> <<"-">> \o NatToChars(-x.n)
      [] OTHER -> <<"N", "a", "N">>

\* parseFloat reads the longest prefix [sign] digits [. digits] | [sign] . digits
\* the length of the sign of s
signLength(s) == IF Len(s) > 0 /\ s[1] \in {"-", "+"} THEN 1 ELSE 0

\* the number of fraction digits of s after ik digits from position start on
fractionRun(s, start, ik) ==
    IF start + ik <= Len(s) /\ s[start + ik] = "."
    THEN DigitRun(s, start + ik + 1)
    ELSE 0

\* the number read: ik digits from position start on and fk digits after
\* the dot; NaN when there is no digit
parsedNumber(s, start, ik, fk) ==
    IF ik + fk = 0 THEN NaN
    ELSE Num((IF s[1] = "-" THEN -1 ELSE 1)
                * (DigitsValue(s, start, ik) * Pow10(fk)
                      + DigitsValue(s, start + ik + 1, fk)),
             Pow10(fk))

parseDigits(s, start, ik) == parsedNumber(s, start, ik, fractionRun(s, start, ik))

parseChars(s, start) == parseDigits(s, start, DigitRun(s, start))

\* parseFloat(x): a number that is not an integer prints and parses back to
\* itself
parseFloat(x) ==
    IF x.t = "num" /\ x.d # 1 THEN x
    ELSE parseChars(ToChars(x), 1 + signLength(ToChars(x)))

\* x.toFixed(f): NaN stays NaN; else the nearest multiple of 10^-f, ties away
\* from zero
toFixed(x, f) ==
    IF x.t # "num" THEN x
    ELSE LET k == (2 * Abs(x.n) * Pow10(f) + x.d) \div (2 * x.d)
         IN  Num(IF x.n < 0 THEN -k ELSE k, Pow10(f))

-----------------------------------------------------------------------------
(* Program constants *)

DEFAULT_PERCENTAGE == 100

INITIAL_GRADE_ROWS == 5

MIN_GRADE == 1

MAX_GRADE == 6

Zero == Num(0, 1)

Hundred == Num(100, 1)

Variants == {"script", "first", "pure", "app"}

\* a slip: a new row that starts with weight 0
NewGradeZeroWeight(id) == [id |-> id, value |-> EmptyStr, percentage |-> Num(0, 1)]

\* a new row: { id, value: '', percentage: 100 } (part_001 names the third
\* field weight)
NewGrade(id) ==
    [id |-> id, value |-> EmptyStr, percentage |-> Num(DEFAULT_PERCENTAGE, 1)]

\* the sum of the first k of a sequence of numbers, accumulated left to right
\* from 0
RECURSIVE TotalTo(_, _)
TotalTo(xs, k) == IF k = 0 THEN Zero ELSE Add(TotalTo(xs, k - 1), xs[k])

Total(xs) == TotalTo(xs, Len(xs))

Ids(g) == {g[i].id : i \in 1..Len(g)}

\* grades.find(g => g.id === id): the index of the first such row, 0 if none
Find(g, id) ==
    IF id \in Ids(g)
    THEN CHOOSE i \in 1..Len(g) : g[i].id = id /\ \A j \in 1..(i - 1) : g[j].id # id
    ELSE 0

-----------------------------------------------------------------------------
(* Calculation: weighted average *)

\* script.js and part_000:92: g.value !== '' && g.value !== null && !isNaN(g.value)
validGradesStored(g) ==
    SelectSeq(g, LAMBDA e : e.value # EmptyStr /\ e.value # Null /\ ~isNaN(e.value))

\* part_000:357-360: g.value !== '' && Number.isFinite(parseFloat(g.value))
validGradesFinite(g) ==
    SelectSeq(g, LAMBDA e : e.value # EmptyStr /\ isFinite(parseFloat(e.value)))

\* part_001:50-53: g.value !== '' && !isNaN(parseFloat(g.value))
validGradesApp(g) ==
    SelectSeq(g, LAMBDA e : e.value # EmptyStr /\ ~isNaN(parseFloat(e.value)))

\* part_000:372: Number.isFinite(weight) ? weight : 0
finiteOrZero(weight) == IF isFinite(weight) THEN weight ELSE Zero

\* part_000:371-372: '' and non-finite weights count as 0
weightNum(e) ==
    finiteOrZero(IF e.percentage = EmptyStr THEN Zero ELSE parseFloat(e.percentage))

\* part_001:64: parseFloat(g.weight) || 0
weightApp(e) == OrElse(parseFloat(e.percentage), Zero)

\* the forEach over the valid rows: the number of rows, the sum of
\* value * weight and the sum of the weights
forEach(values, weights) ==
    [count  |-> Len(values),
     sum    |-> Total([i \in 1..Len(values) |-> Mul(values[i], weights[i])]),
     weight |-> Total(weights)]

\* the locals of script.js calculateFinalGrade after its forEach
\* (weight = percentage / 100)
sumsScript(g) ==
    LET valid == validGradesStored(g)
    IN  forEach([i \in 1..Len(valid) |-> valid[i].value],
                [i \in 1..Len(valid) |-> Div(valid[i].percentage, Hundred)])

\* the locals of part_000:90-105 calculateFinalGrade after its forEach
sumsFirst(g) ==
    LET valid == validGradesStored(g)
    IN  forEach([i \in 1..Len(valid) |-> valid[i].value],
                [i \in 1..Len(valid) |-> valid[i].percentage])

\* part_000:365-375: the forEach of computeWeightedAverage over validGrades
forEachPure(valid) ==
    forEach([i \in 1..Len(valid) |-> parseFloat(valid[i].value)],
            [i \in 1..Len(valid) |-> weightNum(valid[i])])

\* the locals of computeWeightedAverage / updateRequiredGrade after the forEach
sumsPure(g) == forEachPure(validGradesFinite(g))

\* part_001:59-68: the forEach of calculateAverage over validGrades
forEachApp(valid) ==
    forEach([i \in 1..Len(valid) |-> parseFloat(valid[i].value)],
            [i \in 1..Len(valid) |-> weightApp(valid[i])])

\* the locals of part_001 calculateAverage after its forEach
sumsApp(g) == forEachApp(validGradesApp(g))

NoAverage == [average |-> Null, totalWeight |-> Zero]

\* what the calculation returns for the sums t: no average for no valid row
\* and for a total weight of 0 (script.js / part_000:90 calculateFinalGrade
\* show '-' and return before calculateRequiredGrade is called)
finalGradeOf(t) ==
    IF t.count = 0 THEN NoAverage
    ELSE IF t.weight = Zero THEN NoAverage
    ELSE [average |-> Div(t.sum, t.weight), totalWeight |-> t.weight]

\* a slip: the check for a total weight of zero left out
computeWeightedAverageNoZeroCheck(g) ==
    LET t == sumsPure(g)
    IN  IF t.count = 0 THEN NoAverage
        ELSE [average |-> Div(t.sum, t.weight), totalWeight |-> t.weight]

\* part_000 computeWeightedAverage(gradesArray)
computeWeightedAverage(g) == finalGradeOf(sumsPure(g))

\* part_001:55-73: what calculateAverage returns for the sums t
averageOf(t) ==
    IF t.count = 0 THEN NoAverage
    ELSE [average     |-> IF t.weight = Zero THEN Null ELSE Div(t.sum, t.weight),
          totalWeight |-> t.weight]

\* part_001 calculateAverage(grades)
calculateAverage(g) == averageOf(sumsApp(g))

-----------------------------------------------------------------------------
(* Calculation: required grade *)
(*                                                                         *)
(* dom is what the page shows: finalGrade (#finalGrade: a number, null for *)
(* '-'), totalWeight (#totalWeightDisplay, null where the revision has     *)
(* none), display (#requiredGradeSection: "none" or "flex"; part_001 sets  *)
(* aria-hidden instead), label and text (#requiredGrade: a message, or the *)
(* number printed). ret holds what the last calculation returned: average  *)
(* (the average record), required (the required grade, null if none was    *)
(* computed) and threw (the handler ended in a TypeError).                 *)

\* requiredSection.style.display = 'none'; return
Hide(dom, ret) ==
    [dom |-> [dom EXCEPT !.display = "none"],
     ret |-> [ret EXCEPT !.required = Null]]

\* requiredSection.style.display = 'flex' and a message in #requiredGrade
ShowLabel(dom, ret, label, req) ==
    [dom |-> [dom EXCEPT !.display = "flex", !.label = label, !.text = Null],
     ret |-> [ret EXCEPT !.required = req]]

\* requiredSection.style.display = 'flex' and requiredGrade.toFixed(2)
ShowNumber(dom, ret, req) ==
    [dom |-> [dom EXCEPT !.display = "flex", !.label = "", !.text = toFixed(req, 2)],
     ret |-> [ret EXCEPT !.required = req]]

\* part_000 computeRequiredGrade(currentWeightedSum, currentWeight, target, nextWeight)
computeRequiredGrade(currentWeightedSum, currentWeight, target, nextWeight) ==
    IF ~isFinite(target) \/ ~isFinite(nextWeight) \/ Le(nextWeight, Zero)
    THEN Null
    ELSE Div(Sub(Mul(target, Add(currentWeight, nextWeight)), currentWeightedSum),
             nextWeight)

\* part_000:625-642: hidden for null, else the message for a required grade
classifyPure(dom, ret, requiredGrade) ==
    IF requiredGrade = Null THEN Hide(dom, ret)
    ELSE IF Gt(requiredGrade, Num(MAX_GRADE, 1))
    THEN ShowLabel(dom, ret, "Not achievable", requiredGrade)
    ELSE IF Lt(requiredGrade, Num(MIN_GRADE, 1))
    THEN ShowLabel(dom, ret, "Already achieved", requiredGrade)
    ELSE ShowNumber(dom, ret, requiredGrade)

\* part_000:595-642: updateRequiredGrade() from its locals on (t holds
\* currentWeightedSum and currentWeight)
updateRequiredGradeFrom(t, targetGrade, nextWeight, dom, ret) ==
    IF ~isFinite(targetGrade) THEN Hide(dom, ret)
    ELSE IF ~isFinite(nextWeight) \/ Le(nextWeight, Zero) THEN Hide(dom, ret)
    ELSE classifyPure(dom, ret,
             computeRequiredGrade(t.sum, t.weight, targetGrade, nextWeight))

\* part_000:586 updateRequiredGrade()
updateRequiredGrade(g, tg, tw, dom, ret) ==
    updateRequiredGradeFrom(sumsPure(g), parseFloat(tg), parseFloat(tw), dom, ret)

\* part_000:157-167: the message for a required grade
classifyFirst(dom, ret, requiredGrade) ==
    IF Gt(requiredGrade, Num(MAX_GRADE, 1))
    THEN ShowLabel(dom, ret, "Already achieved!", requiredGrade)
    ELSE IF Lt(requiredGrade, Num(MIN_GRADE, 1))
    THEN ShowLabel(dom, ret, "Not achievable", requiredGrade)
    ELSE ShowNumber(dom, ret, requiredGrade)

\* part_000:128-167: calculateRequiredGrade() from its locals on
calculateRequiredGradeFirstFrom(t, targetGrade, nextWeight, dom, ret) ==
    IF ~Truthy(targetGrade) \/ isNaN(targetGrade) THEN Hide(dom, ret)
    ELSE IF t.count = 0 THEN Hide(dom, ret)
    ELSE classifyFirst(dom, ret,
             Div(Sub(Mul(targetGrade, Add(t.weight, nextWeight)), t.sum), nextWeight))

\* part_000:120 calculateRequiredGrade()
calculateRequiredGradeFirst(g, tg, tw, dom, ret) ==
    calculateRequiredGradeFirstFrom(sumsFirst(g), parseFloat(tg),
                                    OrElse(parseFloat(tw), Hundred), dom, ret)

\* script.js:175-184: the message for a required grade
classifyScript(dom, ret, requiredGrade) ==
    IF Gt(requiredGrade, Num(MAX_GRADE, 1))
    THEN ShowLabel(dom, ret, "Not achievable", requiredGrade)
    ELSE IF Lt(requiredGrade, Num(MIN_GRADE, 1))
    THEN ShowLabel(dom, ret, "Not achievable", requiredGrade)
    ELSE ShowNumber(dom, ret, requiredGrade)

\* script.js:136-184: calculateRequiredGrade() from its locals on
calculateRequiredGradeFrom(t, targetGrade, nextWeight, dom, ret) ==
    IF ~Truthy(targetGrade) \/ isNaN(targetGrade) THEN Hide(dom, ret)
    ELSE IF t.count = 0 THEN Hide(dom, ret)
    ELSE IF Ge(Div(t.sum, t.weight), targetGrade)
    THEN ShowLabel(dom, ret, "Already achieved!", Null)
    ELSE classifyScript(dom, ret,
             Div(Sub(Mul(targetGrade, Add(t.weight, nextWeight)), t.sum), nextWeight))

\* script.js:126 calculateRequiredGrade()
calculateRequiredGrade(g, tg, tw, dom, ret) ==
    calculateRequiredGradeFrom(sumsScript(g), parseFloat(tg),
                               Div(OrElse(parseFloat(tw), Hundred), Hundred), dom, ret)

\* part_001:91-97: currentWeightedSum over the rows that count
currentWeightedSumOf(counted) ==
    Total([i \in 1..Len(counted) |->
              Mul(parseFloat(counted[i].value), weightApp(counted[i]))])

\* part_001:86-100: calculateRequired from average and currentWeightedSum on
calculateRequiredFrom(avg, currentWeightedSum, target, nextWeight) ==
    IF avg.average = Null THEN target
    ELSE Div(Sub(Mul(target, Add(avg.totalWeight, nextWeight)), currentWeightedSum),
             nextWeight)

\* part_001 calculateRequired(grades, target, nextWeight)
calculateRequired(g, target, nextWeight) ==
    IF ~Truthy(target) \/ ~Truthy(nextWeight) \/ Le(nextWeight, Zero) THEN Null
    ELSE calculateRequiredFrom(
             calculateAverage(g),
             currentWeightedSumOf(SelectSeq(g, LAMBDA e :
                 Truthy(e.value) /\ ~isNaN(parseFloat(e.value)))),
             target, nextWeight)

\* part_001:205-213: the message for a required grade
classifyApp(dom, ret, required) ==
    IF Gt(required, Num(MAX_GRADE, 1)) THEN ShowLabel(dom, ret, "> 6.0", required)
    ELSE IF Lt(required, Num(MIN_GRADE, 1)) THEN ShowLabel(dom, ret, "Done!", required)
    ELSE ShowNumber(dom, ret, required)

\* part_001:184-192: the final grade and the total weight are shown
showAverage(avg, dom, ret) ==
    [dom |-> [dom EXCEPT
                !.finalGrade  = IF avg.average # Null
                                THEN toFixed(avg.average, 2) ELSE Null,
                !.totalWeight = parseFloat(toFixed(avg.totalWeight, 2))],
     ret |-> [ret EXCEPT !.average = avg, !.threw = FALSE]]

\* part_001:198-216: null.toFixed(2) throws after aria-hidden was set
showRequired(target, nextWeight, required, a) ==
    IF Truthy(target) /\ Truthy(nextWeight)
    THEN IF required = Null
         THEN [dom |-> [a.dom EXCEPT !.display = "flex"],
               ret |-> [a.ret EXCEPT !.required = Null, !.threw = TRUE]]
         ELSE classifyApp(a.dom, a.ret, required)
    ELSE Hide(a.dom, a.ret)

\* part_001:194-216: updateEstimations() from target and nextWeight on
updateEstimationsFrom(g, target, nextWeight, a) ==
    showRequired(target, nextWeight, calculateRequired(g, target, nextWeight), a)

\* part_001 updateEstimations()
updateEstimations(g, tg, tw, dom, ret) ==
    updateEstimationsFrom(g, parseFloat(tg), parseFloat(tw),
                          showAverage(calculateAverage(g), dom, ret))

\* part_000:567-580: the final grade and the total weight are shown
showFinalGrade(avg, dom, ret) ==
    [dom |-> [dom EXCEPT
                !.finalGrade  = IF avg.average = Null THEN Null
                                ELSE toFixed(avg.average, 2),
                !.totalWeight = IF avg.totalWeight.d = 1
                                THEN toFixed(avg.totalWeight, 0)
                                ELSE toFixed(avg.totalWeight, 1)],
     ret |-> [ret EXCEPT !.average = avg]]

\* part_000:566 updateFinalGrade()
updateFinalGrade(g, dom, ret) == showFinalGrade(computeWeightedAverage(g), dom, ret)

\* part_000:560: updateRequiredGrade() on the page a that updateFinalGrade()
\* left
updateRequiredGradeOn(g, tg, tw, a) == updateRequiredGrade(g, tg, tw, a.dom, a.ret)

\* part_000:558 updateDisplays()
updateDisplays(g, tg, tw, dom, ret) ==
    updateRequiredGradeOn(g, tg, tw, updateFinalGrade(g, dom, ret))

\* script.js:113-122: '-' and return, or the final grade and
\* calculateRequiredGrade()
showFinalGradeScript(avg, g, tg, tw, dom, ret) ==
    IF avg.average = Null
    THEN [dom |-> [dom EXCEPT !.finalGrade = Null],
          ret |-> [ret EXCEPT !.average = avg]]
    ELSE calculateRequiredGrade(g, tg, tw,
             [dom EXCEPT !.finalGrade = toFixed(avg.average, 2)],
             [ret EXCEPT !.average = avg])

\* script.js:94 calculateFinalGrade(): returns before calculateRequiredGrade()
\* when '-' is shown
calculateFinalGrade(g, tg, tw, dom, ret) ==
    showFinalGradeScript(finalGradeOf(sumsScript(g)), g, tg, tw, dom, ret)

\* part_000:107-116: '-' and return, or the final grade and
\* calculateRequiredGrade()
showFinalGradeFirst(avg, g, tg, tw, dom, ret) ==
    IF avg.average = Null
    THEN [dom |-> [dom EXCEPT !.finalGrade = Null],
          ret |-> [ret EXCEPT !.average = avg]]
    ELSE calculateRequiredGradeFirst(g, tg, tw,
             [dom EXCEPT !.finalGrade = toFixed(avg.average, 2)],
             [ret EXCEPT !.average = avg])

\* part_000:90 calculateFinalGrade()
calculateFinalGradeFirst(g, tg, tw, dom, ret) ==
    showFinalGradeFirst(finalGradeOf(sumsFirst(g)), g, tg, tw, dom, ret)

-----------------------------------------------------------------------------
(* State *)

VARIABLES
    variant,       \* the revision that runs
    grades,        \* the ledger: grades / state.grades
    gradeCounter,  \* script.js, part_000: the last id given
    nextId,        \* part_001: state.nextId
    issued,        \* history: every id a row of the ledger ever had
    targetGrade,   \* #targetGrade.value
    targetWeight,  \* #targetWeight.value
    dom,           \* what the page shows
    ret,           \* what the last calculation returned
    pc,            \* "input": nothing calculated yet; "ready": page rendered
    points,        \* #achievedPoints, #maxPoints, #gradeThreshold
    converted      \* what the last points conversion returned and showed

vars == <<variant, grades, gradeCounter, nextId, issued, targetGrade, targetWeight,
          dom, ret, pc, points, converted>>

\* Bounds
MaxId == 6

MaxEditId == 2

MaxLen == 2

abc == <<"a", "b", "c">>

\* raw inputs of the ledger specification
LedgerVariants == {"script", "pure", "app"}

LedgerValueRaws == {<<>>, abc, <<"5">>}

LedgerWeightRaws == {<<>>}

\* the id arguments of deleteGrade, and of the two update operations
IdArgs == 1..MaxId

EditIds == 1..MaxEditId

\* raw inputs of the calculation specification: what was typed into the two
\* fields of a row, untouched for a weight field that still holds its default
untouched == <<"k", "e", "p", "t">>

EngineRows ==
    {<<<<>>, untouched>>, <<abc, untouched>>, <<<<"1">>, untouched>>,
     <<<<"6">>, untouched>>,
     <<<<"5">>, <<"5", "0">>>>, <<<<"4">>, <<"5", "0">>>>,
     <<<<"5">>, <<>>>>, <<<<"5">>, abc>>, <<<<"4">>, <<"0">>>>}

EngineTargetRaws == {<<>>, <<"0">>, <<"0", ".", "5">>, <<"5">>, <<"6">>}

EngineNextWeightRaws ==
    {<<>>, <<"0">>, <<"-", "1", "0">>, <<"1", "0">>, <<"5", "0">>, <<"1", "0", "0">>}

\* undefined: an argument that was not supplied
Undefined == [t |-> "undef", s |-> <<>>, n |-> 0, d |-> 1]

\* the three fields of the points converter, empty
NoPoints == [achieved |-> EmptyStr, max |-> EmptyStr, threshold |-> EmptyStr]

\* no conversion has run: nothing returned, nothing shown
NotConverted ==
    [grade |-> Null, percentage |-> Null, status |-> "",
     resultSpan |-> [label |-> "", number |-> Null], percentageSpan |-> Null]

\* the page before any script ran
BaseDom ==
    [finalGrade |-> Null, totalWeight |-> Null, display |-> "none", label |-> "",
     text |-> Null]

BaseRet == [average |-> NoAverage, required |-> Null, threw |-> FALSE]

\* renderGrades(): what every revision runs after the rows are rebuilt
Render(v, g, tg, tw, d, r) ==
    CASE v = "script" -> calculateFinalGrade(g, tg, tw, d, r)
      [] v = "first"  -> calculateFinalGradeFirst(g, tg, tw, d, r)
      [] v = "pure"   -> updateDisplays(g, tg, tw, d, r)
      [] v = "app"    -> updateEstimations(g, tg, tw, d, r)

\* the listener of #targetGrade and #targetWeight
OnTarget(v, g, tg, tw, d, r) ==
    CASE v = "script" -> calculateRequiredGrade(g, tg, tw, d, r)
      [] v = "first"  -> calculateRequiredGradeFirst(g, tg, tw, d, r)
      [] v = "pure"   -> updateRequiredGrade(g, tg, tw, d, r)
      [] v = "app"    -> updateEstimations(g, tg, tw, d, r)

\* a slip: unparsable input stored as 0
storeValueOrZero(v, raw) ==
    IF raw = <<>> THEN EmptyStr
    ELSE IF v \in {"script", "first"} THEN OrElse(parseFloat(Str(raw)), Num(0, 1))
    ELSE IF isNaN(parseFloat(Str(raw))) THEN Str(<<"0">>) ELSE Str(raw)

\* updateGradeValue: what is stored for the raw input
storeValue(v, raw) ==
    IF v \in {"script", "first"}
    THEN IF raw = <<>> THEN EmptyStr ELSE parseFloat(Str(raw))
    ELSE Str(raw)

\* a slip: the guard for an emptied weight field left out
storePercentageUnguarded(v, raw) ==
    IF v \in {"script", "first"} THEN parseFloat(Str(raw)) ELSE Str(raw)

\* updateGradePercentage: what is stored for the raw input
storePercentage(v, raw) ==
    IF v \in {"script", "first"}
    THEN IF raw = <<>> THEN Zero ELSE parseFloat(Str(raw))
    ELSE Str(raw)

RenderTo(g) ==
    \E out \in {Render(variant, g, targetGrade, targetWeight, dom, ret)} :
        dom' = out.dom /\ ret' = out.ret

\* a slip: the id taken from the number of rows
FreshIdByLength == Len(grades) + 1

\* a slip: the id taken from the last row of the ledger
FreshIdAfterLast == IF Len(grades) = 0 THEN 1 ELSE grades[Len(grades)].id + 1

\* the id the next row gets
FreshId == IF variant = "app" THEN nextId ELSE gradeCounter + 1

\* the ledger and counters after addGrade() / handleAddGrade() on ledger g
Pushed(g) == Append(g, NewGrade(FreshId))

\* init(): INITIAL_GRADE_ROWS rows, then the page is rendered
Init ==
    /\ variant \in LedgerVariants
    /\ grades = [i \in 1..INITIAL_GRADE_ROWS |-> NewGrade(i)]
    /\ gradeCounter = IF variant = "app" THEN 0 ELSE INITIAL_GRADE_ROWS
    /\ nextId = IF variant = "app" THEN INITIAL_GRADE_ROWS + 1 ELSE 1
    /\ issued = 1..INITIAL_GRADE_ROWS
    /\ targetGrade = EmptyStr
    /\ targetWeight = EmptyStr
    /\ \E out \in {Render(variant, grades, targetGrade, targetWeight, BaseDom, BaseRet)} :
           dom = out.dom /\ ret = out.ret
    /\ pc = "ready"
    /\ points = NoPoints
    /\ converted = NotConverted

\* addGrade() / handleAddGrade()
addGrade ==
    /\ pc = "ready"
    /\ UNCHANGED <<points, converted>>
    /\ FreshId <= MaxId
    /\ grades' = Pushed(grades)
    /\ gradeCounter' = IF variant = "app" THEN gradeCounter ELSE gradeCounter + 1
    /\ nextId' = IF variant = "app" THEN nextId + 1 ELSE nextId
    /\ issued' = issued \cup Ids(grades')
    /\ RenderTo(grades')
    /\ UNCHANGED <<variant, targetGrade, targetWeight, pc>>

\* a slip: the id taken for the position of the row
WithoutIndex(g, id) == [i \in 1..(Len(g) - (IF id <= Len(g) THEN 1 ELSE 0)) |->
                           IF i < id THEN g[i] ELSE g[i + 1]]

\* grades.filter(g => g.id !== id)
Without(g, id) == SelectSeq(g, LAMBDA e : e.id # id)

\* a slip: no row is re-created
recreatesNever(g) == FALSE

\* script.js deleteGrade: a fresh row when the last one went
recreates(g) == variant = "script" /\ Len(g) = 0

\* deleteGrade(id) / handleTableClick on the row of id (part_001 reads the id
\* off a row of the table, so it is the id of a row)
deleteGrade(id) ==
    /\ pc = "ready"
    /\ UNCHANGED <<points, converted>>
    /\ variant = "app" => id \in Ids(grades)
    /\ recreates(Without(grades, id)) => FreshId <= MaxId
    /\ LET kept == Without(grades, id)
       IN  /\ grades' = IF recreates(kept) THEN Pushed(kept) ELSE kept
           /\ gradeCounter' = IF recreates(kept) THEN gradeCounter + 1 ELSE gradeCounter
           /\ issued' = issued \cup Ids(grades')
    /\ RenderTo(grades')
    /\ UNCHANGED <<variant, nextId, targetGrade, targetWeight, pc>>

\* updateGradeValue(id, value) / handleTableInput on .grade-input
updateGradeValue(id, raw) ==
    /\ pc = "ready"
    /\ UNCHANGED <<points, converted>>
    /\ variant = "app" => id \in Ids(grades)
    /\ LET i == Find(grades, id)
       IN  IF i = 0
           THEN UNCHANGED <<grades, dom, ret>>
           ELSE /\ grades' = [grades EXCEPT ![i].value = storeValue(variant, raw)]
                /\ RenderTo(grades')
    /\ UNCHANGED <<variant, gradeCounter, nextId, issued, targetGrade, targetWeight, pc>>

\* updateGradePercentage(id, percentage) / handleTableInput on .weight-input
updateGradePercentage(id, raw) ==
    /\ pc = "ready"
    /\ UNCHANGED <<points, converted>>
    /\ variant = "app" => id \in Ids(grades)
    /\ LET i == Find(grades, id)
       IN  IF i = 0
           THEN UNCHANGED <<grades, dom, ret>>
           ELSE /\ grades' = [grades EXCEPT ![i].percentage = storePercentage(variant, raw)]
                /\ RenderTo(grades')
    /\ UNCHANGED <<variant, gradeCounter, nextId, issued, targetGrade, targetWeight, pc>>

\* input on #targetGrade / #targetWeight
inputTarget(tg, tw) ==
    /\ pc = "ready"
    /\ UNCHANGED <<points, converted>>
    /\ targetGrade' = Str(tg)
    /\ targetWeight' = Str(tw)
    /\ \E out \in {OnTarget(variant, grades, targetGrade', targetWeight', dom, ret)} :
           dom' = out.dom /\ ret' = out.ret
    /\ UNCHANGED <<variant, grades, gradeCounter, nextId, issued, pc>>

Next ==
    \/ addGrade
    \/ \E id \in IdArgs : deleteGrade(id)
    \/ \E id \in EditIds, raw \in LedgerValueRaws : updateGradeValue(id, raw)
    \/ \E id \in EditIds, raw \in LedgerWeightRaws : updateGradePercentage(id, raw)

Spec == Init /\ [][Next]_vars

-----------------------------------------------------------------------------
(* script.js with a target: the ledger operations, and input into the      *)
(* target fields.                                                          *)

\* raw inputs of the target fields
TargetRaws == {<<>>, <<"6">>}

TargetWeightRaws == {<<>>}

InitTarget == Init /\ variant = "script"

NextTarget ==
    \/ Next
    \/ \E tg \in TargetRaws, tw \in TargetWeightRaws : inputTarget(tg, tw)

SpecTarget == InitTarget /\ [][NextTarget]_vars

-----------------------------------------------------------------------------
(* The calculations on their own: a ledger of up to MaxLen rows that were  *)
(* filled in through updateGradeValue and updateGradePercentage, a target  *)
(* and a next weight; then one calculation.                                *)

\* the row with this id after the two raw inputs were typed into it
RowOf(v, id, typed) ==
    [id         |-> id,
     value      |-> storeValue(v, typed[1]),
     percentage |-> IF typed[2] = untouched THEN Num(DEFAULT_PERCENTAGE, 1)
                    ELSE storePercentage(v, typed[2])]

InitEngine ==
    /\ variant \in Variants
    /\ \E n \in 0..MaxLen : \E typed \in [1..n -> EngineRows] :
          /\ variant = "script" => n > 0
          /\ grades = [i \in 1..n |-> RowOf(variant, i, typed[i])]
          /\ gradeCounter = IF variant = "app" THEN 0 ELSE n
          /\ nextId = IF variant = "app" THEN n + 1 ELSE 1
          /\ issued = 1..n
    /\ targetGrade \in {Str(r) : r \in EngineTargetRaws}
    /\ targetWeight \in {Str(r) : r \in EngineNextWeightRaws}
    /\ dom = BaseDom
    /\ ret = BaseRet
    /\ pc = "input"
    /\ points = NoPoints
    /\ converted = NotConverted

\* a slip: the calculation filters the ledger in place
calculateInPlace ==
    /\ pc = "input"
    /\ UNCHANGED <<points, converted>>
    /\ pc' = "rendered"
    /\ grades' = validGradesStored(grades)
    /\ RenderTo(grades')
    /\ UNCHANGED <<variant, gradeCounter, nextId, issued, targetGrade, targetWeight>>

\* the page is rendered: calculateFinalGrade() / updateDisplays() /
\* updateEstimations()
calculate ==
    /\ pc = "input"
    /\ UNCHANGED <<points, converted>>
    /\ pc' = "rendered"
    /\ RenderTo(grades)
    /\ UNCHANGED <<variant, grades, gradeCounter, nextId, issued, targetGrade,
                   targetWeight>>

\* the listener of the target fields runs: calculateRequiredGrade() /
\* updateRequiredGrade() / updateEstimations()
require ==
    /\ pc = "input"
    /\ UNCHANGED <<points, converted>>
    /\ pc' = "required"
    /\ \E out \in {OnTarget(variant, grades, targetGrade, targetWeight, dom, ret)} :
           dom' = out.dom /\ ret' = out.ret
    /\ UNCHANGED <<variant, grades, gradeCounter, nextId, issued, targetGrade,
                   targetWeight>>

NextEngine == calculate \/ require

SpecEngine == InitEngine /\ [][NextEngine]_vars

-----------------------------------------------------------------------------
(* The points converter: the three fields hold what was typed (threshold   *)
(* undefined for a call without the third argument), then one conversion.  *)
(* converted holds what the function returned (grade, percentage, status;  *)
(* status "" where the revision returns none) and what the page shows:     *)
(* resultSpan (#calculatedGrade: a message and the number printed) and     *)
(* percentageSpan (#achievedPercentage).                                   *)

\* a default parameter: the default replaces an argument that is undefined
defaultParameter(x, default) == IF x.t = "undef" THEN default ELSE x

\* return { grade: null, percentage: null, status }
failure(status) == [grade |-> Null, percentage |-> Null, status |-> status]

\* part_000:439-447: percentage, grade and the final status
gradeOfPercentage(percentage, thresholdNum, status) ==
    [grade      |-> Add(Div(Mul(percentage, Num(5, 1)), thresholdNum), Num(1, 1)),
     percentage |-> percentage,
     status     |-> status]

\* part_000:418-447: computeGradeFromPoints from its parsed arguments on
computeGradeFromNumbers(achievedNum, maxNum, thresholdNum) ==
    IF ~isFinite(maxNum) THEN failure("empty")
    ELSE IF Le(maxNum, Zero) THEN failure("invalid_max")
    ELSE IF ~isFinite(achievedNum) THEN failure("empty")
    ELSE IF Lt(achievedNum, Zero) THEN failure("invalid_achieved")
    ELSE IF \/ ~isFinite(thresholdNum)
            \/ Le(thresholdNum, Zero)
            \/ Gt(thresholdNum, Hundred)
    THEN failure("invalid_threshold")
    ELSE gradeOfPercentage(Mul(Div(achievedNum, maxNum), Hundred), thresholdNum,
                           IF Gt(achievedNum, maxNum) THEN "above_max" ELSE "valid")

\* part_000 computeGradeFromPoints(achieved, max, threshold = 100)
computeGradeFromPoints(achieved, max, threshold) ==
    computeGradeFromNumbers(parseFloat(achieved), parseFloat(max),
                            parseFloat(defaultParameter(threshold, Hundred)))

\* what a conversion returned, and what it put into the two spans
shown(result, label, number, percentageSpan) ==
    [grade      |-> result.grade,
     percentage |-> result.percentage,
     status     |-> result.status,
     resultSpan |-> [label |-> label, number |-> number],
     percentageSpan |-> percentageSpan]

\* part_000:657-687: the spans for the result of computeGradeFromPoints
showResult(result) ==
    CASE result.status = "empty" ->
            shown(result, "-", Null, Str(<<"0", "%">>))
      [] result.status = "invalid_max" ->
            shown(result, "Invalid max points", Null, Str(<<"0", "%">>))
      [] result.status = "invalid_achieved" ->
            shown(result, "Invalid points", Null, Str(<<"0", "%">>))
      [] result.status = "invalid_threshold" ->
            shown(result, "Invalid threshold", Null, Str(<<"0", "%">>))
      [] result.status = "above_max" ->
            shown(result, " (above max!)", toFixed(result.grade, 2),
                  toFixed(result.percentage, 1))
      [] OTHER ->
            shown(result, "", toFixed(result.grade, 2), toFixed(result.percentage, 1))

\* part_000:648 updateGradeFromPoints(), for the three values read
updateGradeFromPoints(achievedPoints, maxPoints, threshold) ==
    showResult(computeGradeFromPoints(achievedPoints, maxPoints, threshold))

\* part_000:196-208: the grade and its message
showGradeFirst(grade) ==
    shown([grade |-> grade, percentage |-> Null, status |-> ""],
          IF Gt(grade, Num(6, 1)) THEN " (above max!)"
          ELSE IF Lt(grade, Num(1, 1)) THEN " (below min!)"
          ELSE "",
          toFixed(grade, 2), Null)

\* part_000:176-208: calculateGradeFromPoints() from its parsed inputs on
calculateGradeFromNumbers(maxPoints, achievedPoints) ==
    IF \/ ~Truthy(maxPoints) \/ ~Truthy(achievedPoints)
       \/ isNaN(maxPoints) \/ isNaN(achievedPoints)
    THEN shown(failure(""), "-", Null, Null)
    ELSE IF Le(maxPoints, Zero)
    THEN shown(failure(""), "Invalid max points", Null, Null)
    ELSE IF Lt(achievedPoints, Zero)
    THEN shown(failure(""), "Invalid points", Null, Null)
    ELSE showGradeFirst(Add(Div(Mul(achievedPoints, Num(5, 1)), maxPoints), Num(1, 1)))

\* part_000:171 calculateGradeFromPoints(), for the two values read
calculateGradeFromPoints(achievedPoints, maxPoints) ==
    calculateGradeFromNumbers(parseFloat(maxPoints), parseFloat(achievedPoints))

\* part_001:116-123: percentage and grade
gradeOfScale(percentage, scale) ==
    [grade      |-> Add(Div(Mul(percentage, Num(5, 1)), scale), Num(1, 1)),
     percentage |-> percentage,
     status     |-> ""]

\* part_001:112-123: calculateFromPoints from its parsed arguments on
calculateFromNumbers(a, m, scale) ==
    IF isNaN(a) \/ isNaN(m) \/ Le(m, Zero) \/ Le(scale, Zero)
    THEN [grade |-> Null, percentage |-> Zero, status |-> ""]
    ELSE gradeOfScale(Mul(Div(a, m), Hundred), scale)

\* part_001 calculateFromPoints(achieved, max, scale = 100)
calculateFromPoints(achieved, max, scale) ==
    calculateFromNumbers(parseFloat(achieved), parseFloat(max),
                         parseFloat(defaultParameter(scale, Hundred)))

\* part_001:226-234: the spans for the result of calculateFromPoints
showConverter(result) ==
    IF result.grade # Null
    THEN shown(result, "", toFixed(result.grade, 2), toFixed(result.percentage, 1))
    ELSE shown(result, "-", Null, Str(<<"-">>))

\* part_001:219 updateConverter(), for the three values read
updateConverter(achieved, max, threshold) ==
    showConverter(calculateFromPoints(achieved, max, threshold))

\* raw inputs of the points converter
PointsVariants == {"first", "pure", "app"}

PointsAchievedRaws ==
    {<<>>, abc, <<"-", "1", "0">>, <<"0">>, <<"1", "0">>, <<"5", "0">>,
     <<"1", "1", "0">>}

PointsMaxRaws == {<<>>, abc, <<"0">>, <<"-", "1", "0">>, <<"1", "0">>, <<"1", "0", "0">>}

PointsThresholdRaws ==
    {<<>>, abc, <<"0">>, <<"-", "1", "0">>, <<"5", "0">>, <<"1", "0", "0">>,
     <<"1", "1", "0">>}

\* the page after init(), with the fields of the converter filled in; the
\* third argument is undefined for a call that leaves it out (part_000:171
\* has no threshold)
InitPoints ==
    /\ variant \in PointsVariants
    /\ grades = [i \in 1..INITIAL_GRADE_ROWS |-> NewGrade(i)]
    /\ gradeCounter = IF variant = "app" THEN 0 ELSE INITIAL_GRADE_ROWS
    /\ nextId = IF variant = "app" THEN INITIAL_GRADE_ROWS + 1 ELSE 1
    /\ issued = 1..INITIAL_GRADE_ROWS
    /\ targetGrade = EmptyStr
    /\ targetWeight = EmptyStr
    /\ \E out \in {Render(variant, grades, targetGrade, targetWeight, BaseDom, BaseRet)} :
           dom = out.dom /\ ret = out.ret
    /\ pc = "ready"
    /\ \E a \in PointsAchievedRaws, m \in PointsMaxRaws :
       \E th \in {Undefined} \cup
                 (IF variant = "first" THEN {}
                  ELSE {Str(r) : r \in PointsThresholdRaws}) :
           points = [achieved |-> Str(a), max |-> Str(m), threshold |-> th]
    /\ converted = NotConverted

\* the conversion runs: calculateGradeFromPoints() / updateGradeFromPoints()
\* / updateConverter()
convert ==
    /\ pc = "ready"
    /\ converted' =
          CASE variant = "first" ->
                  calculateGradeFromPoints(points.achieved, points.max)
            [] variant = "pure" ->
                  updateGradeFromPoints(points.achieved, points.max, points.threshold)
            [] variant = "app" ->
                  updateConverter(points.achieved, points.max, points.threshold)
    /\ UNCHANGED <<variant, grades, gradeCounter, nextId, issued, targetGrade,
                   targetWeight, dom, ret, pc, points>>

NextPoints == convert

SpecPoints == InitPoints /\ [][NextPoints]_vars

-----------------------------------------------------------------------------
(* What the specification says a ledger means, stated without the code's   *)
(* parsing: the number a field denotes, and the sums over the valid rows.  *)

\* the number a raw input denotes, null if it denotes none
RawNumber(chars) ==
    CASE chars = <<"0">> -> Num(0, 1)
      [] chars = <<"0", ".", "5">> -> Num(1, 2)
      [] chars = <<"1">> -> Num(1, 1)
      [] chars = <<"4">> -> Num(4, 1)
      [] chars = <<"5">> -> Num(5, 1)
      [] chars = <<"6">> -> Num(6, 1)
      [] chars = <<"1", "0">> -> Num(10, 1)
      [] chars = <<"5", "0">> -> Num(50, 1)
      [] chars = <<"1", "0", "0">> -> Num(100, 1)
      [] chars = <<"1", "1", "0">> -> Num(110, 1)
      [] chars = <<"-", "1", "0">> -> Num(-10, 1)
      [] OTHER -> Null

\* the number a stored field denotes, null if unset or not a number
RefNumber(x) ==
    CASE x.t = "num" -> x
      [] x.t = "str" -> RawNumber(x.s)
      [] OTHER -> Null

\* the valid rows: value present and a finite number
RefRows(g) == SelectSeq(g, LAMBDA e : RefNumber(e.value) # Null)

\* the weight a row counts with: zero if unset or not a number
RefWeight(e) == IF RefNumber(e.percentage) = Null THEN Zero ELSE RefNumber(e.percentage)

RefS(g) ==
    LET rows == RefRows(g)
    IN  Total([i \in 1..Len(rows) |-> Mul(RefNumber(rows[i].value), RefWeight(rows[i]))])

RefW(g) ==
    LET rows == RefRows(g)
    IN  Total([i \in 1..Len(rows) |-> RefWeight(rows[i])])

RefAverage(g) ==
    IF Len(RefRows(g)) = 0 \/ RefW(g) = Zero THEN Null ELSE Div(RefS(g), RefW(g))

\* the last id given so far
LastId == FreshId - 1

\* a row that no longer holds what addGrade gave it
IsDirty(e) == e.value # EmptyStr \/ e.percentage # Num(100, 1)

-----------------------------------------------------------------------------
(* Ledger claims, checked under Spec *)

\* C1: in every reachable state no two rows of the ledger have the same id.
C1_UniqueIds ==
    \A i, j \in 1..Len(grades) : i # j => grades[i].id # grades[j].id

\* a ledger that rows were removed from and added to
C1_Witness ==
    /\ LastId > INITIAL_GRADE_ROWS
    /\ Len(grades) >= 2
    /\ \E id \in 1..INITIAL_GRADE_ROWS : id \notin Ids(grades)
    /\ LastId \in Ids(grades)

\* C2: an id is never reused: every row that enters the ledger in a step has
\* an id strictly greater than every id a row ever had before the step.
C2_NeverReused ==
    [][\A i \in 1..Len(grades') :
          grades'[i].id \notin Ids(grades) =>
              \A old \in issued : grades'[i].id > old]_vars

\* script.js: the last row was removed and a row was re-created
C2_Witness ==
    /\ variant = "script"
    /\ Len(grades) = 1
    /\ grades[1].id = INITIAL_GRADE_ROWS + 1
    /\ issued = 1..(INITIAL_GRADE_ROWS + 1)

\* C3: addGrade appends exactly one row, with value unset and weight 100 and
\* an id no row has, and leaves the rows before it as they were.
C3_AddAppends ==
    [][addGrade =>
          /\ Len(grades') = Len(grades) + 1
          /\ SubSeq(grades', 1, Len(grades)) = grades
          /\ grades'[Len(grades')].value = EmptyStr
          /\ grades'[Len(grades')].percentage = Num(100, 1)
          /\ grades'[Len(grades')].id \notin Ids(grades)
          /\ ~ret'.threw]_vars

\* a row was added after a row had been filled in
C3_Witness ==
    /\ LastId > INITIAL_GRADE_ROWS
    /\ Len(grades) >= 2
    /\ grades[Len(grades)] = [id |-> LastId, value |-> EmptyStr,
                              percentage |-> Num(100, 1)]
    /\ \E i \in 1..(Len(grades) - 1) : IsDirty(grades[i])

\* C4: deleteGrade(id) removes the row with that id and leaves the other rows
\* with their fields and order; with no such row the ledger and the id
\* counter stay as they are. (A row that is new after the step is the one
\* script.js re-creates when no row is left.)
C4_DeleteRemoves ==
    [][\A id \in IdArgs : deleteGrade(id) =>
          /\ id \notin Ids(grades')
          /\ SelectSeq(grades', LAMBDA e : e.id \in Ids(grades))
                = SelectSeq(grades, LAMBDA e : e.id # id)
          /\ (\E i \in 1..Len(grades') : grades'[i].id \notin Ids(grades))
                => Ids(grades) = {id}
          /\ id \notin Ids(grades)
                => grades' = grades /\ gradeCounter' = gradeCounter /\ nextId' = nextId
          /\ ~ret'.threw]_vars

\* a row from the middle is gone, a filled-in row before it and a row after
\* it are still there
C4_Witness ==
    \E id \in issued \ Ids(grades) :
        /\ \E i \in 1..Len(grades) : grades[i].id < id /\ IsDirty(grades[i])
        /\ \E i \in 1..Len(grades) : grades[i].id > id

\* the value a row counts with: "unset", or the number (NaN if unparsable)
ValueOf(v, e) ==
    IF e.value = EmptyStr THEN Null
    ELSE IF v \in {"script", "first"} THEN e.value
    ELSE parseFloat(e.value)

\* what a raw value input has to be stored as
ExpectedValue(raw) ==
    CASE raw = <<>> -> Null
      [] raw = abc -> NaN
      [] raw = <<"5">> -> Num(5, 1)

\* C5: updateGradeValue(id, raw) sets the value of the row to unset for empty
\* input and to the parsed number otherwise; unparsable input gives NaN and
\* the average is that of the ledger without the row; the weight of the row
\* and all other rows stay; with no such row nothing changes.
C5_UpdateValue ==
    [][\A id \in EditIds, raw \in LedgerValueRaws : updateGradeValue(id, raw) =>
          LET i == Find(grades, id)
          IN  /\ i = 0 => grades' = grades
              /\ i # 0 =>
                    /\ Len(grades') = Len(grades)
                    /\ \A j \in 1..Len(grades) : j # i => grades'[j] = grades[j]
                    /\ grades'[i].id = id
                    /\ grades'[i].percentage = grades[i].percentage
                    /\ ValueOf(variant, grades'[i]) = ExpectedValue(raw)
                    /\ raw = abc =>
                          ret'.average.average = RefAverage(Without(grades', id))
              /\ gradeCounter' = gradeCounter /\ nextId' = nextId
              /\ ~ret'.threw]_vars

\* one row holds an unparsable value next to a row with a valid value: the
\* average shown is that of the valid row
C5_Witness ==
    /\ \E i \in 1..Len(grades) : ValueOf(variant, grades[i]) = NaN
    /\ \E i \in 1..Len(grades) : ValueOf(variant, grades[i]) = Num(5, 1)
    /\ ret.average.average = Num(5, 1)

\* whether the revision counts the row as valid, and the weight it adds
CountsAsValid(v, e) ==
    CASE v \in {"script", "first"} -> Len(validGradesStored(<<e>>)) = 1
      [] v = "pure" -> Len(validGradesFinite(<<e>>)) = 1
      [] v = "app" -> Len(validGradesApp(<<e>>)) = 1

WeightAdded(v, e) ==
    CASE v = "script" -> Div(e.percentage, Hundred)
      [] v = "first" -> e.percentage
      [] v = "pure" -> weightNum(e)
      [] v = "app" -> weightApp(e)

\* C6: updateGradePercentage(id, '') makes the row count with weight zero: a
\* row with a valid value is still among the valid rows and adds 0 to the
\* weighted sum and to the total weight, so the average is that of the other
\* rows.
C6_EmptyWeightIsZero ==
    [][\A id \in EditIds : (updateGradePercentage(id, <<>>) /\ id \in Ids(grades)) =>
          LET i == Find(grades, id)
          IN  /\ ValueOf(variant, grades'[i]) = ValueOf(variant, grades[i])
              /\ RefNumber(grades[i].value) # Null
                    => CountsAsValid(variant, grades'[i])
              /\ WeightAdded(variant, grades'[i]) = Zero
              /\ ret'.average.average = RefAverage(Without(grades', id))
              /\ \A j \in 1..Len(grades) : j # i => grades'[j] = grades[j]]_vars

\* a row with a valid value whose weight was emptied, next to a valid row
\* that carries the average
C6_Witness ==
    /\ \E i \in 1..Len(grades) :
          /\ ValueOf(variant, grades[i]) = Num(5, 1)
          /\ grades[i].percentage \in {Zero, EmptyStr}
    /\ \E i \in 1..Len(grades) :
          /\ ValueOf(variant, grades[i]) = Num(5, 1)
          /\ grades[i].percentage = Num(100, 1)
    /\ ret.average.average = Num(5, 1)

-----------------------------------------------------------------------------
(* Calculation claims, checked under SpecEngine *)

\* the status a page shows for the required grade
Status(d) ==
    CASE d.display = "none" -> "none-needed"
      [] d.label \in {"Already achieved!", "Already achieved", "Done!"} -> "already-achieved"
      [] d.label \in {"Not achievable", "> 6.0"} -> "not-achievable"
      [] OTHER -> "numeric"

\* the average was calculated in this state
Averaged == pc = "rendered" \/ (pc = "required" /\ variant = "app")

\* the target and the next weight as the numbers they denote
Target == RefNumber(targetGrade)

NextWeight == RefNumber(targetWeight)

\* a finite target and a positive next weight were entered
SolverInputs == Target # Null /\ NextWeight # Null /\ Gt(NextWeight, Zero)

\* C7: computeWeightedAverage (part_000) and calculateAverage (part_001)
\* return average null and totalWeight 0 for a ledger without a valid row and
\* for a ledger whose valid rows have a total weight of zero.
C7_NoAverage ==
    (/\ Averaged
     /\ variant \in {"pure", "app"}
     /\ (Len(RefRows(grades)) = 0 \/ RefW(grades) = Zero))
        => ret.average = [average |-> Null, totalWeight |-> Num(0, 1)]

\* valid rows that all carry weight zero, after the average was calculated
C7_Witness ==
    /\ Averaged
    /\ variant \in {"pure", "app"}
    /\ Len(RefRows(grades)) = MaxLen
    /\ RefW(grades) = Zero
    /\ ret.average.average = Null

\* C8 (as claimed): the average is taken over exactly the rows whose value is
\* a finite number, a row whose weight is unset or not a number counting
\* with weight zero: average = sum(value * weight) / sum(weight) when the
\* total weight is not zero, none otherwise; computeWeightedAverage also
\* returns totalWeight = sum(weight).
C8_AverageOfValidRows ==
    (Averaged /\ variant \in {"script", "pure"}) =>
        /\ ret.average.average = RefAverage(grades)
        /\ (variant = "pure" /\ RefAverage(grades) # Null)
              => ret.average.totalWeight = RefW(grades)

\* C9 (as claimed): for a finite target and a positive next weight the
\* required grade that is computed satisfies
\* required * nextWeight = target * (W + nextWeight) - S.
C9_RequiredSolvesEquation ==
    (/\ pc # "input"
     /\ variant \in {"script", "pure", "app"}
     /\ SolverInputs
     /\ ret.required # Null)
        => Mul(ret.required, NextWeight)
              = Sub(Mul(Target, Add(RefW(grades), NextWeight)), RefS(grades))

\* C10 (as claimed): a required grade above 6, computed for a positive next
\* weight, is reported as not achievable.
C10_AboveSixNotAchievable ==
    (/\ pc # "input"
     /\ variant \in {"first", "pure"}
     /\ SolverInputs
     /\ ret.required # Null
     /\ Gt(ret.required, Num(6, 1)))
        => Status(dom) = "not-achievable"

\* C11 (as claimed): a required grade below 1, computed for a positive next
\* weight, is reported as already achieved, never as not achievable.
C11_BelowOneAlreadyAchieved ==
    (/\ pc # "input"
     /\ variant \in {"script", "first"}
     /\ SolverInputs
     /\ ret.required # Null
     /\ Lt(ret.required, Num(1, 1)))
        => Status(dom) = "already-achieved"

\* the required grade that solves the equation of the specification for the
\* ledger, the target and the next weight
RefRequired ==
    Div(Sub(Mul(Target, Add(RefW(grades), NextWeight)), RefS(grades)), NextWeight)

\* the status the bounds [1, 6] give a required grade
RefStatus(required) ==
    IF Gt(required, Num(6, 1)) THEN "not-achievable"
    ELSE IF Lt(required, Num(1, 1)) THEN "already-achieved"
    ELSE "numeric"

\* script.js:162-167 took the short-circuit: 'Already achieved!' is shown and
\* no required grade was computed
ShortCircuited ==
    /\ pc # "input"
    /\ variant = "script"
    /\ dom.display = "flex"
    /\ dom.label = "Already achieved!"
    /\ ret.required = Null

\* C12 (as claimed): whenever the short-circuit of script.js reports already
\* achieved, classifying the solved required grade against the bounds [1, 6]
\* gives already-achieved too (so a required grade in [1, 6] is reported as
\* a number).
C12_ShortCircuitMatchesBounds ==
    (ShortCircuited /\ SolverInputs) => RefStatus(RefRequired) = "already-achieved"

\* C13 (as claimed): for a ledger without a valid row, a finite target and a
\* positive next weight the required grade is the target, classified by the
\* bounds [1, 6].
C13_NoValidRowRequiresTarget ==
    (/\ pc = "required"
     /\ variant \in {"script", "pure", "app"}
     /\ SolverInputs
     /\ Len(RefRows(grades)) = 0)
        => /\ ret.required = Target
           /\ Status(dom) = RefStatus(Target)

\* the next weight entered is not a positive finite number
NoNextWeight == NextWeight = Null \/ Le(NextWeight, Zero)

\* C14 (as claimed): when the next weight is not a positive finite number the
\* required-grade calculation gives the hidden result: no required grade is
\* computed and the caller that displays the result does not fail.
C14_NoNextWeightIsHidden ==
    (/\ pc = "required"
     /\ variant \in {"script", "pure", "app"}
     /\ NoNextWeight)
        => /\ Status(dom) = "none-needed"
           /\ ret.required = Null
           /\ ~ret.threw

\* C19: a step that calculates (pc leaves "input") leaves the ledger (ids,
\* values, weights, order) and the id counters as they are, and running the
\* same calculation again on the page it left gives the same result.
C19_EngineLeavesLedger ==
    [][(pc = "input" /\ pc' # "input") =>
          /\ grades' = grades
          /\ gradeCounter' = gradeCounter
          /\ nextId' = nextId
          /\ pc' = "rendered" =>
                Render(variant, grades', targetGrade', targetWeight', dom', ret')
                    = [dom |-> dom', ret |-> ret']
          /\ pc' = "required" =>
                OnTarget(variant, grades', targetGrade', targetWeight', dom', ret')
                    = [dom |-> dom', ret |-> ret']]_vars

\* an average was calculated over a ledger that also holds a row that is not
\* valid
C19_Witness ==
    /\ pc = "rendered"
    /\ Len(grades) = MaxLen
    /\ Len(RefRows(grades)) < Len(grades)
    /\ ret.average.average # Null

-----------------------------------------------------------------------------
(* Points converter claims, checked under SpecPoints *)

\* a conversion has run
Converted == converted # NotConverted

\* the numbers the three inputs denote, null if none; a threshold that was
\* not supplied is 100
Achieved == RefNumber(points.achieved)

MaxPoints == RefNumber(points.max)

Threshold ==
    IF points.threshold = Undefined THEN Num(100, 1) ELSE RefNumber(points.threshold)

\* the status the validation order of the specification gives the inputs
RefPointsStatus ==
    IF MaxPoints = Null THEN "empty"
    ELSE IF Le(MaxPoints, Zero) THEN "invalid-max"
    ELSE IF Achieved = Null THEN "empty"
    ELSE IF Lt(Achieved, Zero) THEN "invalid-achieved"
    ELSE IF Threshold = Null \/ Le(Threshold, Zero) \/ Gt(Threshold, Num(100, 1))
    THEN "invalid-threshold"
    ELSE IF Gt(Achieved, MaxPoints) THEN "above-max"
    ELSE "valid"

RefPercentage == Mul(Div(Achieved, MaxPoints), Num(100, 1))

RefGrade == Add(Div(Mul(RefPercentage, Num(5, 1)), Threshold), Num(1, 1))

\* the status of a conversion: the status returned, or for part_000:171,
\* which returns none, the one its message stands for
PointsStatus(c) ==
    CASE c.status = "invalid_max" -> "invalid-max"
      [] c.status = "invalid_achieved" -> "invalid-achieved"
      [] c.status = "invalid_threshold" -> "invalid-threshold"
      [] c.status = "above_max" -> "above-max"
      [] c.status \in {"empty", "valid"} -> c.status
      [] c.resultSpan.label = "-" -> "empty"
      [] c.resultSpan.label = "Invalid max points" -> "invalid-max"
      [] c.resultSpan.label = "Invalid points" -> "invalid-achieved"
      [] c.resultSpan.label = " (above max!)" -> "above-max"
      [] OTHER -> "valid"

\* C15 (as claimed): the inputs are checked in the order max not finite,
\* max <= 0, achieved not finite, achieved < 0, threshold invalid, and the
\* first failing check decides the status.
C15_FirstFailingCheckWins ==
    (/\ Converted
     /\ variant \in {"first", "pure"}
     /\ points.threshold # EmptyStr
     /\ RefPointsStatus \notin {"valid", "above-max"})
        => PointsStatus(converted) = RefPointsStatus

\* C16 (as claimed): for achieved >= 0, max > 0 and 0 < threshold <= 100 the
\* conversion gives percentage = achieved / max * 100 and grade =
\* percentage * 5 / threshold + 1, with status above-max exactly when
\* achieved > max and valid otherwise.
C16_GradeOfPoints ==
    (/\ Converted
     /\ variant \in {"first", "pure"}
     /\ points.threshold # EmptyStr
     /\ RefPointsStatus \in {"valid", "above-max"})
        => /\ converted.grade = RefGrade
           /\ variant = "pure" => converted.percentage = RefPercentage
           /\ PointsStatus(converted) = RefPointsStatus

\* C17 (as claimed): grade and percentage are both numbers or both none;
\* they are numbers exactly when the status is valid or above-max.
C17_GradeAndPercentageTogether ==
    (Converted /\ variant \in {"pure", "app"}) =>
        /\ \/ converted.grade.t = "num" /\ converted.percentage.t = "num"
           \/ converted.grade = Null /\ converted.percentage = Null
        /\ variant = "pure" =>
              (converted.grade.t = "num" <=> converted.status \in {"valid", "above_max"})

\* the threshold was not supplied, or its field was left empty
ThresholdAbsent == points.threshold \in {Undefined, EmptyStr}

\* what the conversion returns for the same inputs with threshold 100
WithThreshold100 ==
    IF variant = "pure"
    THEN computeGradeFromPoints(points.achieved, points.max, Str(<<"1", "0", "0">>))
    ELSE calculateFromPoints(points.achieved, points.max, Str(<<"1", "0", "0">>))

\* C18 (as claimed): with the threshold absent and valid achieved and max the
\* conversion returns what the same call with threshold 100 returns, a grade
\* that is a number.
C18_AbsentThresholdIs100 ==
    (/\ Converted
     /\ variant \in {"pure", "app"}
     /\ ThresholdAbsent
     /\ Achieved # Null /\ Ge(Achieved, Zero)
     /\ MaxPoints # Null /\ Gt(MaxPoints, Zero))
        => /\ converted.grade = WithThreshold100.grade
           /\ converted.percentage = WithThreshold100.percentage
           /\ converted.status = WithThreshold100.status
           /\ converted.grade.t = "num"

-----------------------------------------------------------------------------
(* Ledger claims of script.js, checked under Spec *)

\* C20: in script.js the ledger holds at least one row in every reachable
\* state.
C20_ScriptLedgerNeverEmpty == variant = "script" => Len(grades) >= 1

\* script.js: the only row left is the one deleteGrade re-created
C20_Witness ==
    /\ variant = "script"
    /\ gradeCounter > INITIAL_GRADE_ROWS
    /\ grades = <<[id |-> gradeCounter, value |-> EmptyStr,
                   percentage |-> Num(100, 1)]>>

-----------------------------------------------------------------------------
(* Display claim of script.js, checked under SpecTarget *)

\* what the required-grade section shows
RequiredShown(d) == [display |-> d.display, label |-> d.label, text |-> d.text]

\* C21 (as claimed): in script.js, with a target set, the required-grade
\* section shows in every state what calculateRequiredGrade yields for the
\* current ledger; after a mutation that leaves no valid row, or a total
\* weight of zero, it is hidden.
C21_RequiredIsCurrent ==
    (variant = "script" /\ targetGrade # EmptyStr) =>
        RequiredShown(dom) =
            RequiredShown(calculateRequiredGrade(grades, targetGrade, targetWeight,
                                                 dom, ret).dom)

=============================================================================
